---- MODULE Spec2Model ----
(***************************************************************************)
(* Model of httpx (src/httpx.c): the JSON formatter format_json, the five  *)
(* code renderers, configure_request and the menu loop of main.            *)
(*                                                                         *)
(* Text is a sequence of one-character strings.  Two specifications       *)
(* share the variables:                                                    *)
(*   SpecFormat   format_json run character by character on every input    *)
(*                up to MaxLen characters and on the named examples;       *)
(*   Spec         the session: main's menu loop, configure_request,        *)
(*                execute_request, generate_code_menu and the renderers,   *)
(*                reading standard input line by line.                     *)
(***************************************************************************)
EXTENDS Integers, Sequences, FiniteSets, TLC

(***************************************************************************)
(* Bounds of the model.                                                    *)
(***************************************************************************)
\* longest enumerated input of format_json
MaxLen == 4

(***************************************************************************)
(* Text helpers.                                                           *)
(***************************************************************************)
Range(s) == { s[k] : k \in 1..Len(s) }

Last(s) == s[Len(s)]

Abs(n) == IF n < 0 THEN 0 - n ELSE n

Spaces(n) == [k \in 1..n |-> " "]

\* all sequences over A of length at most n
SeqsUpTo(A, n) == UNION { [1..k -> A] : k \in 0..n }

(***************************************************************************)
(* format_json, src/httpx.c:462-510.                                       *)
(***************************************************************************)
\* the value of prev_char before any character was seen (char prev_char = 0)
NUL == "NUL"

\* the characters the formatter is run on
FmtAlphabet == {"{", "}", "[", "]", ",", ":", "\"", "\\", " ", "a"}

\* c != ' ' && c != '\n' && c != '\r' && c != '\t', negated
IsSpaceChar(c) == c \in {" ", "\n", "\r", "\t"}

\* NewlineIndent with one space per level instead of two
NewlineIndent_OneSpace(indent) == <<"\n">> \o Spaces(Abs(indent))

\* printf("\n%*s", indent * 2, ""): a negative width left-justifies in a
\* field of the absolute width, so the pad is |indent * 2| spaces
NewlineIndent(indent) == <<"\n">> \o Spaces(Abs(indent * 2))

\* c == '"' && prev_char != '\\'
QuoteToggles(c, prev_char) == c = "\"" /\ prev_char # "\\"

\* OpenBreaksLine with only the matching closing bracket holding the line
OpenBreaksLine_MatchingOnly(s, i) ==
    /\ i + 1 < Len(s)
    /\ s[i + 2] # (IF s[i + 1] = "{" THEN "}" ELSE "]")

\* OpenBreaksLine without the look at the next character
OpenBreaksLine_NoLookahead(s, i) == i + 1 < Len(s)

\* i + 1 < strlen(json_str) && json_str[i+1] != '}' && json_str[i+1] != ']'
\* (i counts from 0 as in the source; json_str[i] is s[i + 1] here)
OpenBreaksLine(s, i) ==
    /\ i + 1 < Len(s)
    /\ s[i + 2] # "}"
    /\ s[i + 2] # "]"

\* prev_char != '{' && prev_char != '['
CloseBreaksLine(prev_char) == prev_char # "{" /\ prev_char # "["

\* if(c != ' ' && c != '\n' && c != '\r' && c != '\t') prev_char = c;
NextPrevChar(c, prev_char) == IF IsSpaceChar(c) THEN prev_char ELSE c

\* Branch with the bracket, comma and colon tests ahead of the in_string test
Branch_StructuralFirst(c, in_string, prev_char) ==
    IF QuoteToggles(c, prev_char) THEN "quote"
    ELSE IF c = "{" \/ c = "[" THEN "open"
    ELSE IF c = "}" \/ c = "]" THEN "close"
    ELSE IF c = "," THEN "comma"
    ELSE IF c = ":" THEN "colon"
    ELSE IF in_string THEN "string"
    ELSE IF ~IsSpaceChar(c) THEN "other"
    ELSE "space"

\* Branch without its last arm: a character that is nothing else is skipped
Branch_NoOtherArm(c, in_string, prev_char) ==
    IF QuoteToggles(c, prev_char) THEN "quote"
    ELSE IF in_string THEN "string"
    ELSE IF c = "{" \/ c = "[" THEN "open"
    ELSE IF c = "}" \/ c = "]" THEN "close"
    ELSE IF c = "," THEN "comma"
    ELSE IF c = ":" THEN "colon"
    ELSE "space"

\* which arm of the if / else-if chain of the loop body takes character c
Branch(c, in_string, prev_char) ==
    IF QuoteToggles(c, prev_char) THEN "quote"
    ELSE IF in_string THEN "string"
    ELSE IF c = "{" \/ c = "[" THEN "open"
    ELSE IF c = "}" \/ c = "]" THEN "close"
    ELSE IF c = "," THEN "comma"
    ELSE IF c = ":" THEN "colon"
    ELSE IF ~IsSpaceChar(c) THEN "other"
    ELSE "space"

\* One iteration of the for loop, on json_str[i], from the formatter state
\* st = [indent, in_string, prev_char, out]; out is what was printed so far.
FormatChar(st, s, i) ==
    LET c == s[i + 1]
        b == Branch(c, st.in_string, st.prev_char)
        indent == CASE b = "open" -> st.indent + 1
                    [] b = "close" -> st.indent - 1
                    [] OTHER -> st.indent
        printed == CASE b = "quote" -> <<c>>
                     [] b = "string" -> <<c>>
                     [] b = "open" -> IF OpenBreaksLine(s, i)
                                      THEN <<c>> \o NewlineIndent(indent)
                                      ELSE <<c>>
                     [] b = "close" -> IF CloseBreaksLine(st.prev_char)
                                       THEN NewlineIndent(indent) \o <<c>>
                                       ELSE <<c>>
                     [] b = "comma" -> <<c>> \o NewlineIndent(indent)
                     [] b = "colon" -> <<":", " ">>
                     [] b = "other" -> <<c>>
                     [] OTHER -> <<>>
    IN  [indent |-> indent,
         in_string |-> IF b = "quote" THEN ~st.in_string ELSE st.in_string,
         prev_char |-> NextPrevChar(c, st.prev_char),
         out |-> st.out \o printed]

\* int indent = 0; int in_string = 0; char prev_char = 0;
FormatStart ==
    [indent |-> 0, in_string |-> FALSE, prev_char |-> NUL, out |-> <<>>]

RECURSIVE FormatLoop(_, _, _)
FormatLoop(st, s, i) ==
    IF i < Len(s) THEN FormatLoop(FormatChar(st, s, i), s, i + 1) ELSE st

\* everything format_json(s) prints: the loop, then printf("\n")
FormatJson(s) == FormatLoop(FormatStart, s, 0).out \o <<"\n">>

\* inputs of format_json beyond the enumerated ones
\* {"a":1,"b":[1,2]}
ExampleObject ==
    <<"{", "\"", "a", "\"", ":", "1", ",", "\"", "b", "\"", ":",
      "[", "1", ",", "2", "]", "}">>

\* {"a":"x{y"}
ExampleBraceInString ==
    <<"{", "\"", "a", "\"", ":", "\"", "x", "{", "y", "\"", "}">>

\* [[a,a],{}]
ExampleNested == <<"[", "[", "a", ",", "a", "]", ",", "{", "}", "]">>

\* {"k":{"b":[]}}
ExampleNestedEmpty ==
    <<"{", "\"", "k", "\"", ":", "{", "\"", "b", "\"", ":", "[", "]", "}", "}">>

\* { "a<TAB>b" :<CR><LF>[ 1 ,<TAB>2 ] }
ExampleSpaced ==
    <<"{", " ", "\"", "a", "\t", "b", "\"", " ", ":", "\r", "\n",
      "[", " ", "1", " ", ",", "\t", "2", " ", "]", " ", "}">>

\* ]<TAB>,"x<LF>{ : an unmatched bracket and a string that is not closed
ExampleUnclosed == <<"]", "\t", ",", "\"", "x", "\n", "{", " ">>

FmtExamples ==
    {ExampleObject, ExampleBraceInString, ExampleNested, ExampleNestedEmpty,
     ExampleSpaced, ExampleUnclosed}

FmtInputs == SeqsUpTo(FmtAlphabet, MaxLen) \cup FmtExamples

(***************************************************************************)
(* The Request record and C string helpers, src/httpx.c:26-56.             *)
(***************************************************************************)
MAX_HEADERS == 50

MAX_HEADER_LEN == 512

MAX_URL_LEN == 2048

MAX_BODY_LEN == 16384

\* char method[16] of Request and char input[512] of configure_request
METHOD_SIZE == 16

INPUT_SIZE == 512

\* the terminal colour escapes, each kept as one token
COLOR_RESET == <<"\\033[0m">>

COLOR_BOLD == <<"\\033[1m">>

COLOR_RED == <<"\\033[31m">>

COLOR_GREEN == <<"\\033[32m">>

COLOR_YELLOW == <<"\\033[33m">>

COLOR_CYAN == <<"\\033[36m">>

COLOR_MAGENTA == <<"\\033[35m">>

\* string literals of the source, as text
GET == <<"G", "E", "T">>

POST == <<"P", "O", "S", "T">>

PUT == <<"P", "U", "T">>

DELETE == <<"D", "E", "L", "E", "T", "E">>

LitGet == <<"g", "e", "t">>

LitPost == <<"p", "o", "s", "t">>

LitPut == <<"p", "u", "t">>

LitDelete == <<"d", "e", "l", "e", "t", "e">>

LitRequest == <<"r", "e", "q", "u", "e", "s", "t">>

LitMethod == <<"m", "e", "t", "h", "o", "d">>

LitYes == <<"Y", "e", "s">>

LitNo == <<"N", "o">>

ContentTypePrefix == <<"C", "o", "n", "t", "e", "n", "t", "-", "T", "y", "p", "e", ":">>

ContentTypeJson == <<"C", "o", "n", "t", "e", "n", "t", "-", "T", "y", "p", "e", ":", " ", "a", "p", "p", "l", "i", "c", "a", "t", "i", "o", "n", "/", "j", "s", "o", "n">>

BodyEndMark == <<"@", "@", "@">>

LowerCase ==
    <<"a", "b", "c", "d", "e", "f", "g", "h", "i", "j", "k", "l", "m",
      "n", "o", "p", "q", "r", "s", "t", "u", "v", "w", "x", "y", "z">>

UpperCase ==
    <<"A", "B", "C", "D", "E", "F", "G", "H", "I", "J", "K", "L", "M",
      "N", "O", "P", "Q", "R", "S", "T", "U", "V", "W", "X", "Y", "Z">>

\* if(c >= 'a' && c <= 'z') c = c - 32;
ToUpper(c) ==
    IF \E k \in 1..26 : LowerCase[k] = c
    THEN UpperCase[CHOOSE k \in 1..26 : LowerCase[k] = c]
    ELSE c

\* tolower, as strncasecmp applies it
ToLower(c) ==
    IF \E k \in 1..26 : UpperCase[k] = c
    THEN LowerCase[CHOOSE k \in 1..26 : UpperCase[k] = c]
    ELSE c

\* strchr(s, c): the position of the first c in s, 0 for NULL
Strchr(s, c) ==
    IF \E k \in 1..Len(s) : s[k] = c
    THEN CHOOSE k \in 1..Len(s) : s[k] = c /\ \A j \in 1..(k - 1) : s[j] # c
    ELSE 0

\* s[strcspn(s, "\n")] = 0: cut s at its first newline
CutAtNewline(s) ==
    IF Strchr(s, "\n") = 0 THEN s ELSE SubSeq(s, 1, Strchr(s, "\n") - 1)

\* strncasecmp(s, lit, n) == 0
StrncasecmpEq(s, lit, n) ==
    /\ Len(s) >= n
    /\ \A k \in 1..n : ToLower(s[k]) = ToLower(lit[k])

Digits == <<"0", "1", "2", "3", "4", "5", "6", "7", "8", "9">>

IsDigit(c) == \E d \in 1..10 : Digits[d] = c

DigitVal(c) == (CHOOSE d \in 1..10 : Digits[d] = c) - 1

\* the digits at the head of s as a number, and what follows them
RECURSIVE ScanDigits(_, _)
ScanDigits(s, acc) ==
    IF s # <<>> /\ IsDigit(Head(s))
    THEN ScanDigits(Tail(s), acc * 10 + DigitVal(Head(s)))
    ELSE [val |-> acc, rest |-> s]

\* leading white space as scanf and atol skip it
RECURSIVE SkipSpace(_)
SkipSpace(s) ==
    IF s # <<>> /\ IsSpaceChar(Head(s)) THEN SkipSpace(Tail(s)) ELSE s

\* atol(s): optional white space, optional sign, digits; 0 without digits
Atol(s) ==
    LET t == SkipSpace(s)
        neg == t # <<>> /\ Head(t) = "-"
        u == IF t # <<>> /\ Head(t) \in {"-", "+"} THEN Tail(t) ELSE t
        v == ScanDigits(u, 0).val
    IN  IF neg THEN 0 - v ELSE v

\* %ld and %d: a number as decimal text
RECURSIVE NatToText(_)
NatToText(n) ==
    IF n < 10 THEN <<Digits[n + 1]>>
    ELSE Append(NatToText(n \div 10), Digits[(n % 10) + 1])

IntToText(n) == IF n < 0 THEN <<"-">> \o NatToText(0 - n) ELSE NatToText(n)

\* Request last_request = {0}; strcpy(last_request.method, "GET");
\* last_request.follow_redirects = 1;   (src/httpx.c:610-614)
InitialRequest ==
    [url |-> <<>>, method |-> GET,
     headers |-> [k \in 1..MAX_HEADERS |-> <<>>], header_count |-> 0,
     body |-> <<>>, follow_redirects |-> TRUE, verbose |-> FALSE,
     timeout |-> 0]

\* one printf call: who printed, the format string, the arguments as text
P(by, fmt, args) == [by |-> by, fmt |-> fmt, args |-> args]

(***************************************************************************)
(* The code renderers, src/httpx.c:97-284.  Each gives the printf calls    *)
(* it makes, in order.                                                     *)
(***************************************************************************)
RECURSIVE Flatten(_)
Flatten(ss) == IF ss = <<>> THEN <<>> ELSE Head(ss) \o Flatten(Tail(ss))

\* while(*value == ' ') value++;
RECURSIVE SkipBlanks(_)
SkipBlanks(value) ==
    IF value # <<>> /\ Head(value) = " " THEN SkipBlanks(Tail(value)) ELSE value

\* *colon = '\0': header_copy now ends before the colon
HeaderKey(header_copy, colon) == SubSeq(header_copy, 1, colon - 1)

\* HeaderValue without the skipping of leading spaces
HeaderValue_NoTrim(header_copy, colon) ==
    SubSeq(header_copy, colon + 1, Len(header_copy))

\* char *value = colon + 1; while(*value == ' ') value++;
HeaderValue(header_copy, colon) ==
    SkipBlanks(SubSeq(header_copy, colon + 1, Len(header_copy)))

\* strlen(req->body) > 0
HasBody(req) == Len(req.body) > 0

\* src/httpx.c:97-117
generate_curl_code(req) ==
    <<P("curl", "\n%s=== cURL ===%s\n", <<COLOR_GREEN, COLOR_RESET>>),
      P("curl", "curl -X %s '%s'", <<req.method, req.url>>)>>
    \o [k \in 1..req.header_count |->
            P("curl", " \\\n  -H '%s'", <<req.headers[k]>>)]
    \o (IF HasBody(req)
        THEN <<P("curl", " \\\n  -d '%s'", <<req.body>>)>> ELSE <<>>)
    \o (IF req.follow_redirects
        THEN <<P("curl", " \\\n  -L", <<>>)>> ELSE <<>>)
    \o (IF req.timeout > 0
        THEN <<P("curl", " \\\n  --max-time %ld", <<IntToText(req.timeout)>>)>>
        ELSE <<>>)
    \o <<P("curl", "\n\n", <<>>)>>

\* the body of the header loop of generate_javascript_code, for index i
\* (from 0), src/httpx.c:126-138
JavascriptHeader(req, i) ==
    LET header_copy == req.headers[i + 1]
        colon == Strchr(header_copy, ":")
    IN  IF colon # 0
        THEN <<P("javascript", "    '%s': '%s'",
                 <<HeaderKey(header_copy, colon), HeaderValue(header_copy, colon)>>)>>
             \o (IF i < req.header_count - 1
                 THEN <<P("javascript", ",", <<>>)>> ELSE <<>>)
             \o <<P("javascript", "\n", <<>>)>>
        ELSE <<>>

\* JavascriptBody looking at the first character after leading spaces
JavascriptBody_SkipsSpaces(req) ==
    IF HasBody(req)
    THEN IF SkipBlanks(req.body) # <<>> /\ Head(SkipBlanks(req.body)) \in {"{", "["}
         THEN <<P("javascript", "  body: JSON.stringify(%s)\n", <<req.body>>)>>
         ELSE <<P("javascript", "  body: '%s'\n", <<req.body>>)>>
    ELSE <<>>

\* if(req->body[0] == '{' || req->body[0] == '[') ... else ..., src/httpx.c:142-149
JavascriptBody(req) ==
    IF HasBody(req)
    THEN IF req.body[1] = "{" \/ req.body[1] = "["
         THEN <<P("javascript", "  body: JSON.stringify(%s)\n", <<req.body>>)>>
         ELSE <<P("javascript", "  body: '%s'\n", <<req.body>>)>>
    ELSE <<>>

\* src/httpx.c:119-155
generate_javascript_code(req) ==
    <<P("javascript", "%s=== JavaScript (Fetch API) ===%s\n",
        <<COLOR_GREEN, COLOR_RESET>>),
      P("javascript", "fetch('%s', {\n", <<req.url>>),
      P("javascript", "  method: '%s',\n", <<req.method>>)>>
    \o (IF req.header_count > 0
        THEN <<P("javascript", "  headers: {\n", <<>>)>>
             \o Flatten([k \in 1..req.header_count |-> JavascriptHeader(req, k - 1)])
             \o <<P("javascript", "  },\n", <<>>)>>
        ELSE <<>>)
    \o JavascriptBody(req)
    \o <<P("javascript", "})\n", <<>>),
         P("javascript", "  .then(response => response.json())\n", <<>>),
         P("javascript", "  .then(data => console.log(data))\n", <<>>),
         P("javascript", "  .catch(error => console.error('Error:', error));\n\n", <<>>)>>

\* the body of the header loop of generate_python_code, src/httpx.c:164-176
PythonHeader(req, i) ==
    LET header_copy == req.headers[i + 1]
        colon == Strchr(header_copy, ":")
    IN  IF colon # 0
        THEN <<P("python", "    '%s': '%s'",
                 <<HeaderKey(header_copy, colon), HeaderValue(header_copy, colon)>>)>>
             \o (IF i < req.header_count - 1
                 THEN <<P("python", ",", <<>>)>> ELSE <<>>)
             \o <<P("python", "\n", <<>>)>>
        ELSE <<>>

\* RequestCallName with the lower-cased method as the fallback
RequestCallName_LowerCased(method) ==
    IF method = GET THEN LitGet
    ELSE IF method = POST THEN LitPost
    ELSE IF method = PUT THEN LitPut
    ELSE IF method = DELETE THEN LitDelete
    ELSE [k \in 1..Len(method) |-> ToLower(method[k])]

\* strcmp(req->method, "GET") == 0 ? "get" : ... : "request"
\* (src/httpx.c:185-188 and 208-211)
RequestCallName(method) ==
    IF method = GET THEN LitGet
    ELSE IF method = POST THEN LitPost
    ELSE IF method = PUT THEN LitPut
    ELSE IF method = DELETE THEN LitDelete
    ELSE LitRequest

\* src/httpx.c:157-194
generate_python_code(req) ==
    <<P("python", "%s=== Python (requests) ===%s\n", <<COLOR_GREEN, COLOR_RESET>>),
      P("python", "import requests\nimport json\n\n", <<>>),
      P("python", "url = '%s'\n", <<req.url>>)>>
    \o (IF req.header_count > 0
        THEN <<P("python", "headers = {\n", <<>>)>>
             \o Flatten([k \in 1..req.header_count |-> PythonHeader(req, k - 1)])
             \o <<P("python", "}\n\n", <<>>)>>
        ELSE <<>>)
    \o (IF HasBody(req)
        THEN <<P("python", "data = '''%s'''\n\n", <<req.body>>)>> ELSE <<>>)
    \o <<P("python", "response = requests.%s(url", <<RequestCallName(req.method)>>)>>
    \o (IF req.header_count > 0
        THEN <<P("python", ", headers=headers", <<>>)>> ELSE <<>>)
    \o (IF HasBody(req) THEN <<P("python", ", data=data", <<>>)>> ELSE <<>>)
    \o <<P("python", ")\n", <<>>),
         P("python", "print(response.json())\n\n", <<>>)>>

\* RustHeader without the if(colon) test
RustHeader_NoColonTest(req, i) ==
    LET header_copy == req.headers[i + 1]
        colon == Strchr(header_copy, ":")
    IN  <<P("rust", "        .header(\"%s\", \"%s\")\n",
            <<HeaderKey(header_copy, colon), HeaderValue(header_copy, colon)>>)>>

\* the body of the header loop of generate_rust_code, src/httpx.c:213-223
RustHeader(req, i) ==
    LET header_copy == req.headers[i + 1]
        colon == Strchr(header_copy, ":")
    IN  IF colon # 0
        THEN <<P("rust", "        .header(\"%s\", \"%s\")\n",
                 <<HeaderKey(header_copy, colon), HeaderValue(header_copy, colon)>>)>>
        ELSE <<>>

\* src/httpx.c:196-235
generate_rust_code(req) ==
    <<P("rust", "%s=== Rust (reqwest) ===%s\n", <<COLOR_GREEN, COLOR_RESET>>),
      P("rust", "use reqwest;\n\n", <<>>),
      P("rust", "#[tokio::main]\n", <<>>),
      P("rust", "async fn main() -> Result<(), Box<dyn std::error::Error>> {\n", <<>>),
      P("rust", "    let client = reqwest::Client::new();\n", <<>>)>>
    \o (IF HasBody(req)
        THEN <<P("rust", "    let body = r#\"%s\"#;\n\n", <<req.body>>)>> ELSE <<>>)
    \o <<P("rust", "    let response = client.%s(\"%s\")\n",
           <<RequestCallName(req.method), req.url>>)>>
    \o Flatten([k \in 1..req.header_count |-> RustHeader(req, k - 1)])
    \o (IF HasBody(req) THEN <<P("rust", "        .body(body)\n", <<>>)>> ELSE <<>>)
    \o <<P("rust", "        .send()\n", <<>>),
         P("rust", "        .await?;\n\n", <<>>),
         P("rust", "    let body = response.text().await?;\n", <<>>),
         P("rust", "    println!(\"{}\", body);\n", <<>>),
         P("rust", "    Ok(())\n", <<>>),
         P("rust", "}\n\n", <<>>)>>

\* the body of the header loop of generate_java_code, src/httpx.c:256-266
JavaHeader(req, i) ==
    LET header_copy == req.headers[i + 1]
        colon == Strchr(header_copy, ":")
    IN  IF colon # 0
        THEN <<P("java", "            .header(\"%s\", \"%s\")\n",
                 <<HeaderKey(header_copy, colon), HeaderValue(header_copy, colon)>>)>>
        ELSE <<>>

\* strcmp(req->method, "GET") == 0 ? "GET" : ... : "method", src/httpx.c:270-273
JavaBodyCallName(method) ==
    IF method = GET THEN GET
    ELSE IF method = POST THEN POST
    ELSE IF method = PUT THEN PUT
    ELSE IF method = DELETE THEN DELETE
    ELSE LitMethod

\* if(strlen(req->body) > 0) ... else ..., src/httpx.c:268-276
JavaPublisher(req) ==
    IF HasBody(req)
    THEN <<P("java", "            .%s(HttpRequest.BodyPublishers.ofString(jsonBody));\n",
             <<JavaBodyCallName(req.method)>>)>>
    ELSE <<P("java", "            .%s(HttpRequest.BodyPublishers.noBody());\n",
             <<req.method>>)>>

\* src/httpx.c:237-284
generate_java_code(req) ==
    <<P("java", "%s=== Java (HttpClient) ===%s\n", <<COLOR_GREEN, COLOR_RESET>>),
      P("java", "import java.net.URI;\n", <<>>),
      P("java", "import java.net.http.HttpClient;\n", <<>>),
      P("java", "import java.net.http.HttpRequest;\n", <<>>),
      P("java", "import java.net.http.HttpResponse;\n\n", <<>>),
      P("java", "public class HttpExample {\n", <<>>),
      P("java", "    public static void main(String[] args) throws Exception {\n", <<>>),
      P("java", "        HttpClient client = HttpClient.newHttpClient();\n", <<>>)>>
    \o (IF HasBody(req)
        THEN <<P("java", "        String jsonBody = \"\"\"\n", <<>>),
               P("java", "            %s\n", <<req.body>>),
               P("java", "            \"\"\";\n\n", <<>>)>>
        ELSE <<>>)
    \o <<P("java", "        HttpRequest.Builder builder = HttpRequest.newBuilder()\n", <<>>),
         P("java", "            .uri(URI.create(\"%s\"))\n", <<req.url>>)>>
    \o Flatten([k \in 1..req.header_count |-> JavaHeader(req, k - 1)])
    \o JavaPublisher(req)
    \o <<P("java", "\n        HttpRequest request = builder.build();\n", <<>>),
         P("java", "        HttpResponse<String> response = client.send(request,\n", <<>>),
         P("java", "            HttpResponse.BodyHandlers.ofString());\n", <<>>),
         P("java", "        System.out.println(response.body());\n", <<>>),
         P("java", "    }\n", <<>>),
         P("java", "}\n\n", <<>>)>>

\* the switch of generate_code_menu, src/httpx.c:300-315
GenerateCodeSwitch(req, sel) ==
    CASE sel = 1 -> generate_curl_code(req)
      [] sel = 2 -> generate_javascript_code(req)
      [] sel = 3 -> generate_python_code(req)
      [] sel = 4 -> generate_rust_code(req)
      [] sel = 5 -> generate_java_code(req)
      [] sel = 6 -> generate_curl_code(req) \o generate_javascript_code(req)
                       \o generate_python_code(req) \o generate_rust_code(req)
                       \o generate_java_code(req)
      [] OTHER -> <<P("generate_code_menu", "%s[!] Invalid choice%s\n",
                      <<COLOR_RED, COLOR_RESET>>)>>

\* src/httpx.c:587-607
view_request(req) ==
    <<P("view_request", "\n%s=== Last Request ===%s\n", <<COLOR_CYAN, COLOR_RESET>>),
      P("view_request", "%sURL:%s %s\n", <<COLOR_BOLD, COLOR_RESET, req.url>>),
      P("view_request", "%sMethod:%s %s\n", <<COLOR_BOLD, COLOR_RESET, req.method>>)>>
    \o (IF req.header_count > 0
        THEN <<P("view_request", "%sHeaders:%s\n", <<COLOR_BOLD, COLOR_RESET>>)>>
             \o [k \in 1..req.header_count |->
                    P("view_request", "  %s\n", <<req.headers[k]>>)]
        ELSE <<>>)
    \o (IF HasBody(req)
        THEN <<P("view_request", "%sBody:%s\n%s\n",
                 <<COLOR_BOLD, COLOR_RESET, req.body>>)>>
        ELSE <<>>)
    \o <<P("view_request", "%sFollow Redirects:%s %s\n",
           <<COLOR_BOLD, COLOR_RESET, IF req.follow_redirects THEN LitYes ELSE LitNo>>),
         P("view_request", "%sTimeout:%s %ld seconds\n",
           <<COLOR_BOLD, COLOR_RESET, IntToText(req.timeout)>>),
         P("view_request", "\n", <<>>)>>

(***************************************************************************)
(* read_multiline_body, src/httpx.c:425-460, and the Content-Type check of *)
(* configure_request, src/httpx.c:552-566.                                 *)
(***************************************************************************)
\* strcmp(line, "@@@\n") == 0 || strcmp(line, "@@@\r\n") == 0
IsBodyEnd(line) ==
    line = BodyEndMark \o <<"\n">> \/ line = BodyEndMark \o <<"\r", "\n">>

\* a line without its final "\n" and then without its final "\r"
ChompLine(line) ==
    LET a == IF line # <<>> /\ Last(line) = "\n"
             THEN SubSeq(line, 1, Len(line) - 1) ELSE line
    IN  IF a # <<>> /\ Last(a) = "\r" THEN SubSeq(a, 1, Len(a) - 1) ELSE a

\* The while loop over the lines fgets returns (lines exhausted: fgets
\* returned NULL); body is body[0..total-1], max_len is MAX_BODY_LEN.
RECURSIVE ReadBodyLines(_, _, _, _)
ReadBodyLines(lines, body, first_line, max_len) ==
    IF ~(Len(body) < max_len - 1) \/ lines = <<>> THEN body
    ELSE IF IsBodyEnd(Head(lines)) THEN body
    ELSE IF Len(body) + Len(Head(lines)) < max_len - 1
         THEN LET sep == IF ~first_line /\ Len(body) < max_len - 2
                         THEN <<"\n">> ELSE <<>>
              IN  ReadBodyLines(Tail(lines), (body \o sep) \o ChompLine(Head(lines)),
                                FALSE, max_len)
         ELSE ReadBodyLines(Tail(lines), body, first_line, max_len)

read_multiline_body(lines, max_len) == ReadBodyLines(lines, <<>>, TRUE, max_len)

\* req->body[0] == '{' || req->body[0] == '['
BodyLooksJson(body) == body # <<>> /\ (body[1] = "{" \/ body[1] = "[")

\* the for loop setting has_content_type
HasContentType(req) ==
    \E k \in 1..req.header_count : StrncasecmpEq(req.headers[k], ContentTypePrefix, 13)

\* src/httpx.c:552-566: the request after the body was read
AutoContentType(req) ==
    IF BodyLooksJson(req.body) /\ ~HasContentType(req) /\ req.header_count < MAX_HEADERS
    THEN [req EXCEPT !.headers[req.header_count + 1] = ContentTypeJson,
                     !.header_count = req.header_count + 1]
    ELSE req

\* NormalizeMethod without the GET default
NormalizeMethod_NoDefault(method) == [k \in 1..Len(method) |-> ToUpper(method[k])]

\* if(strlen(req->method) == 0) strcpy(req->method, "GET"); then the
\* upper-casing loop, src/httpx.c:524-530
NormalizeMethod(method) ==
    LET m == IF Len(method) = 0 THEN GET ELSE method
    IN  [k \in 1..Len(m) |-> ToUpper(m[k])]

\* strcmp(req->method, "GET") != 0 && strcmp(req->method, "DELETE") != 0
MethodTakesBody(method) == method # GET /\ method # DELETE

(***************************************************************************)
(* scanf("%d", &choice), src/httpx.c:621 and 297.                          *)
(***************************************************************************)
\* The conversion on text that starts with a non-space character: ret is
\* scanf's return value, val the number stored, rest what stays unread.
ScanfInt(s) ==
    LET signed == s # <<>> /\ Head(s) \in {"-", "+"}
        u == IF signed THEN Tail(s) ELSE s
        d == ScanDigits(u, 0)
    IN  IF u # <<>> /\ IsDigit(Head(u))
        THEN [ret |-> 1, rest |-> d.rest,
              val |-> IF Head(s) = "-" THEN 0 - d.val ELSE d.val]
        ELSE [ret |-> 0, rest |-> u, val |-> 0]

(***************************************************************************)
(* execute_request, src/httpx.c:318-399: what it prints for the outcome of *)
(* the transfer.  It changes nothing in the Request.                       *)
(***************************************************************************)
\* {"b":[]}
ResponseJson == <<"{", "\"", "b", "\"", ":", "[", "]", "}">>

\* hi
ResponseText == <<"h", "i">>

\* the outcomes of curl_easy_init and curl_easy_perform that are modelled:
\* no handle, a transport error, a response with a non-empty body
TransferOutcomes ==
    {[kind |-> "no_handle", code |-> 0, body |-> <<>>],
     [kind |-> "error", code |-> 0, body |-> <<>>],
     [kind |-> "ok", code |-> 200, body |-> ResponseJson],
     [kind |-> "ok", code |-> 404, body |-> ResponseText]}

execute_request(req, res) ==
    IF res.kind = "no_handle" THEN <<>>
    ELSE
      <<P("execute_request", "\n%s[>] Sending %s request to %s...%s\n",
          <<COLOR_YELLOW, req.method, req.url, COLOR_RESET>>)>>
      \o (IF res.kind = "error"
          THEN <<P("execute_request", "%s[x] Request failed: %s%s\n",
                   <<COLOR_RED, <<"curl_easy_strerror">>, COLOR_RESET>>)>>
          ELSE
            <<P("execute_request", "%s[v] Response received in %.2fms%s\n",
                <<COLOR_GREEN, <<"elapsed">>, COLOR_RESET>>),
              P("execute_request", "%s[i] Status Code: %ld%s\n",
                <<IF res.code >= 200 /\ res.code < 300 THEN COLOR_GREEN ELSE COLOR_RED,
                  IntToText(res.code), COLOR_RESET>>),
              P("execute_request", "\n%s--- Response Body ---%s\n",
                <<COLOR_CYAN, COLOR_RESET>>)>>
            \o (IF res.body # <<>> /\ (res.body[1] = "{" \/ res.body[1] = "[")
                THEN <<P("format_json", "%s", <<FormatJson(res.body)>>)>>
                ELSE <<P("execute_request", "%s\n", <<res.body>>)>>)
            \o <<P("execute_request", "%s---------------------%s\n\n",
                   <<COLOR_CYAN, COLOR_RESET>>)>>)

(***************************************************************************)
(* Standard input of the session.  The terminal hands the program one line *)
(* at a time; what the user may type at each prompt is drawn from the sets *)
(* below.  End of input can come at any read and stays.                    *)
(***************************************************************************)
\* most header lines typed for one request
MaxHeaderLines == 2

Line(s) == s \o <<"\n">>

MenuLines == { Line(<<c>>) : c \in {"1", "2", "3", "4", "5", "9", "x"} }

GenLines == { Line(<<c>>) : c \in {"1", "2", "3", "4", "5", "6", "7", "x"} }

UrlLines == {Line(<<"u">>)}

MethodLines ==
    {Line(<<>>), Line(<<"p", "o", "s", "t">>), Line(<<"P", "A", "T", "C", "H">>),
     Line(<<"D", "E", "L", "E", "T", "E">>)}

YesNoLines == {Line(<<"y">>), Line(<<"n">>)}

\* "A:  1:2", "bad", "content-type:j"
HeaderLines ==
    {Line(<<"A", ":", " ", " ", "1", ":", "2">>),
     Line(<<"b", "a", "d">>),
     Line(<<"c", "o", "n", "t", "e", "n", "t", "-", "t", "y", "p", "e", ":", "j">>)}

\* the bodies typed before the closing line: nothing, "{a", " [", "hi", and
\* the two lines "hi" and "{a"
BodyTexts ==
    {<<>>, <<Line(<<"{", "a">>)>>, <<Line(<<" ", "[">>)>>, <<Line(<<"h", "i">>)>>,
     <<Line(<<"h", "i">>), Line(<<"{", "a">>)>>}

TimeoutLines == {Line(<<>>), Line(<<"5">>)}

PauseLines == {Line(<<>>)}

\* a value an uninitialised int or char may hold, one per case the code
\* distinguishes
IndeterminateChoices == {1, 2, 3, 4, 5, 6, 9}

IndeterminateChars == {"y", "n"}

\* char input[512] of configure_request before anything was read into it
UNINIT == <<"UNINIT">>

(***************************************************************************)
(* State.                                                                  *)
(***************************************************************************)
VARIABLES
    json_str,      \* format_json: the argument
    i,             \* format_json: the loop index
    indent,        \* format_json: int indent
    in_string,     \* format_json: int in_string
    prev_char,     \* format_json: char prev_char
    fmt_out,       \* format_json: the characters printed so far
    fmt_pc,        \* format_json: "loop", "done"; "idle" outside SpecFormat
    pc,            \* main: where the session is
    last_request,  \* main: Request last_request
    choice,        \* main: int choice
    scan_ret,      \* main: what the last scanf("%d", &choice) returned
    pending,       \* stdin: the unread rest of the line last typed
    eof,           \* stdin: end of input was reached
    input,         \* configure_request: char input[512]
    hdr_lines,     \* configure_request: header lines typed for this request
    output         \* the printf calls since the last menu prompt

fmtVars == <<json_str, i, indent, in_string, prev_char, fmt_out, fmt_pc>>

sesVars ==
    <<pc, last_request, choice, scan_ret, pending, eof, input, hdr_lines, output>>

vars == <<fmtVars, sesVars>>

\* the session variables while only format_json runs
SessionIdle ==
    /\ pc = "idle"
    /\ last_request = InitialRequest
    /\ choice = 0
    /\ scan_ret = 0
    /\ pending = <<>>
    /\ eof = FALSE
    /\ input = UNINIT
    /\ hdr_lines = 0
    /\ output = <<>>

\* the formatter variables while the session runs
FormatIdle ==
    /\ json_str = <<>>
    /\ i = 0
    /\ indent = 0
    /\ in_string = FALSE
    /\ prev_char = NUL
    /\ fmt_out = <<>>
    /\ fmt_pc = "idle"

(***************************************************************************)
(* SpecFormat: format_json, one loop iteration per step.                   *)
(***************************************************************************)
InitFormat ==
    /\ json_str \in FmtInputs
    /\ i = 0
    /\ indent = FormatStart.indent
    /\ in_string = FormatStart.in_string
    /\ prev_char = FormatStart.prev_char
    /\ fmt_out = FormatStart.out
    /\ fmt_pc = "loop"
    /\ SessionIdle

\* the body of for(size_t i = 0; i < strlen(json_str); i++)
FormatIter ==
    /\ fmt_pc = "loop"
    /\ i < Len(json_str)
    /\ LET st == FormatChar([indent |-> indent, in_string |-> in_string,
                             prev_char |-> prev_char, out |-> fmt_out],
                            json_str, i)
       IN  /\ indent' = st.indent
           /\ in_string' = st.in_string
           /\ prev_char' = st.prev_char
           /\ fmt_out' = st.out
    /\ i' = i + 1
    /\ UNCHANGED <<json_str, fmt_pc, sesVars>>

\* the loop condition fails; printf("\n")
FormatEnd ==
    /\ fmt_pc = "loop"
    /\ ~(i < Len(json_str))
    /\ fmt_out' = fmt_out \o <<"\n">>
    /\ fmt_pc' = "done"
    /\ UNCHANGED <<json_str, i, indent, in_string, prev_char, sesVars>>

NextFormat == FormatIter \/ FormatEnd

SpecFormat == InitFormat /\ [][NextFormat]_vars

(***************************************************************************)
(* Reading standard input.                                                 *)
(***************************************************************************)
Min(a, b) == IF a < b THEN a ELSE b

\* fgets(buf, size, stdin), the line drawn from L when none is pending:
\* got says a line was read (FALSE: NULL at end of input, buf untouched),
\* line is what went into buf (at most size-1 characters), rest stays unread
Fgets(L, size) ==
    LET take(l) == [got |-> TRUE,
                    line |-> SubSeq(l, 1, Min(Len(l), size - 1)),
                    rest |-> SubSeq(l, Min(Len(l), size - 1) + 1, Len(l)),
                    eof |-> FALSE]
        fail == [got |-> FALSE, line |-> <<>>, rest |-> <<>>, eof |-> TRUE]
    IN  IF pending # <<>> THEN {take(pending)}
        ELSE IF eof THEN {fail}
        ELSE { take(l) : l \in L } \cup {fail}

\* getchar(): one character is consumed
Getchar(L) ==
    IF pending # <<>> THEN {[rest |-> Tail(pending), eof |-> FALSE]}
    ELSE IF eof THEN {[rest |-> <<>>, eof |-> TRUE]}
    ELSE { [rest |-> Tail(l), eof |-> FALSE] : l \in L }
             \cup {[rest |-> <<>>, eof |-> TRUE]}

\* scanf("%d", &choice); getchar();  White space is skipped first, reading
\* on when only white space is pending.  ret is scanf's return value (-1
\* for EOF), val the number stored when ret = 1, rest what stays unread
\* after getchar took one more character.
ScanfThenGetchar(L) ==
    LET conv(s) == LET r == ScanfInt(s)
                   IN  [ret |-> r.ret, val |-> r.val,
                        rest |-> IF r.rest = <<>> THEN <<>> ELSE Tail(r.rest),
                        eof |-> FALSE]
        fail == [ret |-> 0 - 1, val |-> 0, rest |-> <<>>, eof |-> TRUE]
    IN  IF SkipSpace(pending) # <<>> THEN {conv(SkipSpace(pending))}
        ELSE IF eof THEN {fail}
        ELSE { conv(l) : l \in L } \cup {fail}

\* input[0], indeterminate while nothing was read into input
FirstOfInput(buf) == IF buf = UNINIT THEN IndeterminateChars ELSE {buf[1]}

\* atol(input), indeterminate while nothing was read into input
AtolOfInput(buf) == IF buf = UNINIT THEN {0, 5} ELSE {Atol(buf)}

IsYes(c) == c = "y" \/ c = "Y"

(***************************************************************************)
(* Spec: the session, src/httpx.c:609-665 and 512-585.                     *)
(***************************************************************************)
Init ==
    /\ pc = "menu"
    /\ last_request = InitialRequest
    /\ choice \in IndeterminateChoices
    /\ scan_ret = 0
    /\ pending = <<>>
    /\ eof = FALSE
    /\ input = UNINIT
    /\ hdr_lines = 0
    /\ output = <<>>
    /\ FormatIdle

\* what show_help prints: fixed text, its first printf stands for all
show_help == <<P("show_help", "\n%s=== HTTPX Help ===%s\n\n", <<COLOR_CYAN, COLOR_RESET>>)>>

\* switch(choice) of main: the next position and what is printed before
\* the next read
MainSwitch(req, c) ==
    CASE c = 1 ->
           [pc |-> "cfg_url",
            out |-> <<P("configure_request", "\n%s=== Configure Request ===%s\n",
                        <<COLOR_CYAN, COLOR_RESET>>)>>]
      [] c = 2 ->
           [pc |-> "pause",
            out |-> IF Len(req.url) = 0
                    THEN <<P("main", "%s[!] No request made yet%s\n",
                             <<COLOR_RED, COLOR_RESET>>)>>
                    ELSE view_request(req)]
      [] c = 3 ->
           IF Len(req.url) = 0
           THEN [pc |-> "pause",
                 out |-> <<P("main", "%s[!] No request to generate code from%s\n",
                             <<COLOR_RED, COLOR_RESET>>)>>]
           ELSE [pc |-> "gen", out |-> <<>>]
      [] c = 4 -> [pc |-> "pause", out |-> show_help]
      [] c = 5 ->
           [pc |-> "exited",
            out |-> <<P("main", "\n%s[v] Thanks for using HTTPX!%s\n\n",
                        <<COLOR_GREEN, COLOR_RESET>>)>>]
      [] OTHER ->
           [pc |-> "pause",
            out |-> <<P("main", "%s[!] Invalid option%s\n",
                        <<COLOR_RED, COLOR_RESET>>)>>]

\* print_menu(); scanf("%d", &choice); getchar(); switch(choice) up to the
\* next read, src/httpx.c:619-661
MenuSelect ==
    /\ pc = "menu"
    /\ \E r \in ScanfThenGetchar(MenuLines) :
         LET c == IF r.ret = 1 THEN r.val ELSE choice
             sw == MainSwitch(last_request, c)
         IN  /\ choice' = c
             /\ scan_ret' = r.ret
             /\ pending' = r.rest
             /\ eof' = r.eof
             /\ pc' = sw.pc
             /\ output' = sw.out
             /\ input' = IF sw.pc = "cfg_url" THEN UNINIT ELSE input
    /\ UNCHANGED <<last_request, hdr_lines, fmtVars>>

\* fgets(req->url, MAX_URL_LEN, stdin); req->url[strcspn(req->url, "\n")] = 0;
CfgUrl ==
    /\ pc = "cfg_url"
    /\ \E r \in Fgets(UrlLines, MAX_URL_LEN) :
         /\ last_request' =
              [last_request EXCEPT !.url = CutAtNewline(IF r.got THEN r.line ELSE @)]
         /\ pending' = r.rest
         /\ eof' = r.eof
    /\ pc' = "cfg_method"
    /\ UNCHANGED <<choice, scan_ret, input, hdr_lines, output, fmtVars>>

\* fgets(req->method, sizeof(req->method), stdin); ...; GET by default;
\* upper-cased, src/httpx.c:521-530
CfgMethod ==
    /\ pc = "cfg_method"
    /\ \E r \in Fgets(MethodLines, METHOD_SIZE) :
         /\ last_request' =
              [last_request EXCEPT
                 !.method = NormalizeMethod(CutAtNewline(IF r.got THEN r.line ELSE @))]
         /\ pending' = r.rest
         /\ eof' = r.eof
    /\ pc' = "cfg_addhdr"
    /\ UNCHANGED <<choice, scan_ret, input, hdr_lines, output, fmtVars>>

\* Leaving the header prompts at src/httpx.c:546: a method that takes a body
\* goes on to the body prompt, any other has its body emptied (line 571).
AfterHeaders(req) ==
    IF MethodTakesBody(req.method)
    THEN [pc |-> "cfg_addbody", req |-> req]
    ELSE [pc |-> "cfg_redir", req |-> [req EXCEPT !.body = <<>>]]

\* "Add headers? (y/n)": fgets(input, ...); req->header_count = 0;
\* src/httpx.c:532-535
CfgAddHeaders ==
    /\ pc = "cfg_addhdr"
    /\ \E r \in Fgets(YesNoLines, INPUT_SIZE) :
         LET buf == IF r.got THEN r.line ELSE input
             req == [last_request EXCEPT !.header_count = 0]
         IN  /\ input' = buf
             /\ pending' = r.rest
             /\ eof' = r.eof
             /\ \E c \in FirstOfInput(buf) :
                  IF IsYes(c)
                  THEN /\ pc' = "cfg_hdr"
                       /\ last_request' = req
                  ELSE /\ pc' = AfterHeaders(req).pc
                       /\ last_request' = AfterHeaders(req).req
    /\ hdr_lines' = 0
    /\ UNCHANGED <<choice, scan_ret, output, fmtVars>>

\* one turn of while(req->header_count < MAX_HEADERS), src/httpx.c:537-543
CfgHeader ==
    /\ pc = "cfg_hdr"
    /\ IF last_request.header_count < MAX_HEADERS
       THEN \E r \in Fgets(IF hdr_lines < MaxHeaderLines
                           THEN HeaderLines \cup {Line(<<>>)}
                           ELSE {Line(<<>>)}, MAX_HEADER_LEN) :
              LET slot == last_request.header_count + 1
                  req == [last_request EXCEPT
                            !.headers[slot] = CutAtNewline(IF r.got THEN r.line ELSE @)]
              IN  /\ pending' = r.rest
                  /\ eof' = r.eof
                  /\ IF Len(req.headers[slot]) = 0
                     THEN /\ pc' = AfterHeaders(req).pc
                          /\ last_request' = AfterHeaders(req).req
                          /\ hdr_lines' = 0
                     ELSE /\ pc' = "cfg_hdr"
                          /\ last_request' = [req EXCEPT !.header_count = slot]
                          /\ hdr_lines' = IF r.got THEN hdr_lines + 1 ELSE hdr_lines
       ELSE /\ pc' = AfterHeaders(last_request).pc
            /\ last_request' = AfterHeaders(last_request).req
            /\ hdr_lines' = 0
            /\ UNCHANGED <<pending, eof>>
    /\ UNCHANGED <<choice, scan_ret, input, output, fmtVars>>

\* "Add request body? (y/n)": fgets(input, ...); src/httpx.c:547-549, 567-569
CfgAddBody ==
    /\ pc = "cfg_addbody"
    /\ \E r \in Fgets(YesNoLines, INPUT_SIZE) :
         LET buf == IF r.got THEN r.line ELSE input
         IN  /\ input' = buf
             /\ pending' = r.rest
             /\ eof' = r.eof
             /\ \E c \in FirstOfInput(buf) :
                  IF IsYes(c)
                  THEN /\ pc' = "cfg_body"
                       /\ last_request' = last_request
                  ELSE /\ pc' = "cfg_redir"
                       /\ last_request' = [last_request EXCEPT !.body = <<>>]
    /\ UNCHANGED <<choice, scan_ret, hdr_lines, output, fmtVars>>

\* the lines read_multiline_body may get: a pending line first, then typed
\* lines, closed by the @@@ line or by the end of input
BodyInputs ==
    LET first == IF pending # <<>> THEN <<pending>> ELSE <<>>
        typed == IF eof THEN {<<>>} ELSE BodyTexts
        ends == IF eof THEN {TRUE} ELSE {TRUE, FALSE}
    IN  { [lines |-> (first \o t) \o (IF e THEN <<>> ELSE <<Line(BodyEndMark)>>),
           eof |-> e] : t \in typed, e \in ends }

\* read_multiline_body(req->body, MAX_BODY_LEN); then the Content-Type
\* header is added for a JSON body, src/httpx.c:550-566
CfgBody ==
    /\ pc = "cfg_body"
    /\ \E b \in BodyInputs :
         LET req == [last_request EXCEPT
                       !.body = read_multiline_body(b.lines, MAX_BODY_LEN)]
         IN  /\ last_request' = AutoContentType(req)
             /\ output' = IF AutoContentType(req) # req
                          THEN Append(output,
                                 P("configure_request",
                                   "%s[i] Auto-added Content-Type: application/json header%s\n",
                                   <<COLOR_YELLOW, COLOR_RESET>>))
                          ELSE output
             /\ eof' = b.eof
    /\ pending' = <<>>
    /\ pc' = "cfg_redir"
    /\ UNCHANGED <<choice, scan_ret, input, hdr_lines, fmtVars>>

\* req->follow_redirects = (input[0] != 'n' && input[0] != 'N'); src/httpx.c:574-576
CfgRedirects ==
    /\ pc = "cfg_redir"
    /\ \E r \in Fgets(YesNoLines, INPUT_SIZE) :
         LET buf == IF r.got THEN r.line ELSE input
         IN  /\ input' = buf
             /\ pending' = r.rest
             /\ eof' = r.eof
             /\ \E c \in FirstOfInput(buf) :
                  last_request' =
                    [last_request EXCEPT !.follow_redirects = (c # "n" /\ c # "N")]
    /\ pc' = "cfg_timeout"
    /\ UNCHANGED <<choice, scan_ret, hdr_lines, output, fmtVars>>

\* req->timeout = atol(input); src/httpx.c:578-580
CfgTimeout ==
    /\ pc = "cfg_timeout"
    /\ \E r \in Fgets(TimeoutLines, INPUT_SIZE) :
         LET buf == IF r.got THEN r.line ELSE input
         IN  /\ input' = buf
             /\ pending' = r.rest
             /\ eof' = r.eof
             /\ \E n \in AtolOfInput(buf) :
                  last_request' = [last_request EXCEPT !.timeout = n]
    /\ pc' = "cfg_verbose"
    /\ UNCHANGED <<choice, scan_ret, hdr_lines, output, fmtVars>>

\* req->verbose = (input[0] == 'y' || input[0] == 'Y'); src/httpx.c:582-584;
\* configure_request returns and its input buffer is gone
CfgVerbose ==
    /\ pc = "cfg_verbose"
    /\ \E r \in Fgets(YesNoLines, INPUT_SIZE) :
         LET buf == IF r.got THEN r.line ELSE input
         IN  /\ input' = UNINIT
             /\ pending' = r.rest
             /\ eof' = r.eof
             /\ \E c \in FirstOfInput(buf) :
                  last_request' = [last_request EXCEPT !.verbose = IsYes(c)]
    /\ pc' = "exec"
    /\ UNCHANGED <<choice, scan_ret, hdr_lines, output, fmtVars>>

\* execute_request(&last_request); src/httpx.c:627
Execute ==
    /\ pc = "exec"
    /\ \E res \in TransferOutcomes :
         output' = output \o execute_request(last_request, res)
    /\ pc' = "pause"
    /\ UNCHANGED <<last_request, choice, scan_ret, pending, eof, input, hdr_lines,
                   fmtVars>>

\* generate_code_menu: scanf("%d", &choice); getchar(); switch(choice);
\* its own choice is indeterminate when scanf stores nothing
GenSelect ==
    /\ pc = "gen"
    /\ \E r \in ScanfThenGetchar(GenLines) :
         /\ pending' = r.rest
         /\ eof' = r.eof
         /\ \E sel \in (IF r.ret = 1 THEN {r.val} ELSE IndeterminateChoices) :
              output' = output \o GenerateCodeSwitch(last_request, sel)
    /\ pc' = "pause"
    /\ UNCHANGED <<last_request, choice, scan_ret, input, hdr_lines, fmtVars>>

\* printf("\nPress Enter to continue..."); getchar(); and back to the menu
Pause ==
    /\ pc = "pause"
    /\ \E r \in Getchar(PauseLines) :
         /\ pending' = r.rest
         /\ eof' = r.eof
    /\ pc' = "menu"
    /\ output' = <<>>
    /\ UNCHANGED <<last_request, choice, scan_ret, input, hdr_lines, fmtVars>>

Next ==
    \/ MenuSelect
    \/ CfgUrl
    \/ CfgMethod
    \/ CfgAddHeaders
    \/ CfgHeader
    \/ CfgAddBody
    \/ CfgBody
    \/ CfgRedirects
    \/ CfgTimeout
    \/ CfgVerbose
    \/ Execute
    \/ GenSelect
    \/ Pause

Spec == Init /\ [][Next]_vars

(***************************************************************************)
(* Properties of format_json (checked under SpecFormat).                   *)
(***************************************************************************)
\* what the step printed
Printed == SubSeq(fmt_out', Len(fmt_out) + 1, Len(fmt_out'))

\* the step is a loop iteration; Cur is the character it reads
IsIter == fmt_pc = "loop" /\ i < Len(json_str) /\ i' = i + 1

Cur == json_str[i + 1]

\* The reading of a whitespace-free text by the rule of the specification:
\* a quote toggles the string flag unless the character before it is a
\* backslash; s[k] is read inside a string when an odd number of toggling
\* quotes precedes it.
NoWhitespace(s) == \A k \in 1..Len(s) : s[k] \notin {" ", "\n", "\r", "\t"}

TogglingQuote(s, k) == s[k] = "\"" /\ (k = 1 \/ s[k - 1] # "\\")

InsideString(s, k) ==
    Cardinality({ j \in 1..(k - 1) : TogglingQuote(s, j) }) % 2 = 1

IsOpenAt(s, k) == s[k] \in {"{", "["} /\ ~InsideString(s, k)

IsCloseAt(s, k) == s[k] \in {"}", "]"} /\ ~InsideString(s, k)

\* brackets open after the first k characters
OpenCount(s, k) ==
    Cardinality({ j \in 1..k : IsOpenAt(s, j) })
        - Cardinality({ j \in 1..k : IsCloseAt(s, j) })

BracketBalanced(s) ==
    /\ \A k \in 0..Len(s) : OpenCount(s, k) >= 0
    /\ OpenCount(s, Len(s)) = 0

\* the 7 lines of the specification for {"a":1,"b":[1,2]}
ExampleObjectOutput ==
    <<"{", "\n",
      " ", " ", "\"", "a", "\"", ":", " ", "1", ",", "\n",
      " ", " ", "\"", "b", "\"", ":", " ", "[", "\n",
      " ", " ", " ", " ", "1", ",", "\n",
      " ", " ", " ", " ", "2", "\n",
      " ", " ", "]", "\n",
      "}", "\n">>

\* C1: on bracket-balanced input without whitespace, a newline printed after
\* an opening bracket or a comma is followed by exactly 2*d spaces, d the
\* number of brackets open (the new one included); a newline printed before
\* a closing bracket is followed by 2*(d-1) spaces, d the number open before
\* the close; a ':' outside a string is printed as ': '; nothing else
\* starts with a space, so the pads are exact; after the last character one
\* newline is printed and ends the output; {"a":1,"b":[1,2]} gives the 7
\* lines of the specification.
C1_IndentByDepth ==
    [][ /\ (IsIter /\ NoWhitespace(json_str) /\ BracketBalanced(json_str)) =>
            LET k == i + 1
                d == OpenCount(json_str, k)
                dBefore == OpenCount(json_str, k - 1)
            IN  /\ (Printed # <<>>) => Printed[1] # " "
                /\ ((IsOpenAt(json_str, k) \/ (Cur = "," /\ ~InsideString(json_str, k)))
                      /\ "\n" \in Range(Printed))
                      => Printed = <<Cur, "\n">> \o Spaces(2 * d)
                /\ (IsCloseAt(json_str, k) /\ "\n" \in Range(Printed))
                      => Printed = (<<"\n">> \o Spaces(2 * (dBefore - 1))) \o <<Cur>>
                /\ (Cur = ":" /\ ~InsideString(json_str, k))
                      => Printed = <<":", " ">>
        /\ (fmt_pc = "loop" /\ fmt_pc' = "done"
              /\ NoWhitespace(json_str) /\ BracketBalanced(json_str)) =>
            /\ fmt_out' = fmt_out \o <<"\n">>
            /\ Last(fmt_out') = "\n"
            /\ (json_str = ExampleObject => fmt_out' = ExampleObjectOutput)
      ]_vars

\* C1 witness: the example was formatted, with its nested array indented by
\* four spaces after the bracket and after the comma at depth 2.
C1_Witness ==
    /\ fmt_pc = "done"
    /\ json_str = ExampleObject
    /\ fmt_out = ExampleObjectOutput

\* C2: while in_string is set, a character other than the toggling quote is
\* printed verbatim exactly once, with nothing added and nothing dropped,
\* and indent and in_string keep their values: structural characters and
\* whitespace inside a string are copied.
C2_StringVerbatim ==
    [][ (IsIter /\ in_string /\ ~(Cur = "\"" /\ prev_char # "\\")) =>
            /\ fmt_out' = Append(fmt_out, Cur)
            /\ indent' = indent
            /\ in_string' = in_string
      ]_vars

\* C2 witness: a structural character or a space was copied inside a string.
C2_Witness ==
    /\ fmt_pc = "loop"
    /\ in_string
    /\ i >= 2
    /\ json_str[i] \in {"{", "[", "}", "]", ",", ":", " "}
    /\ Last(fmt_out) = json_str[i]
    /\ indent = 0

\* C3: an opening bracket outside a string that is immediately followed by
\* its matching closing bracket is printed with the closing bracket right
\* after it, at any depth; "{}" gives "{}\n" and "[]" gives "[]\n".
C3_EmptyContainerCompact ==
    [][ /\ (IsIter /\ ~in_string /\ i >= 1
              /\ <<json_str[i], Cur>> \in {<<"{", "}">>, <<"[", "]">>}) =>
            /\ Last(fmt_out) = json_str[i]
            /\ fmt_out' = Append(fmt_out, Cur)
        /\ (fmt_pc' = "done" /\ json_str \in {<<"{", "}">>, <<"[", "]">>}) =>
            fmt_out' = json_str \o <<"\n">>
      ]_vars

\* C3 witness: an empty container at depth 2 was printed compactly.
C3_Witness ==
    /\ fmt_pc = "loop"
    /\ ~in_string
    /\ i >= 2
    /\ <<json_str[i - 1], json_str[i]>> \in {<<"{", "}">>, <<"[", "]">>}
    /\ indent >= 2
    /\ Len(fmt_out) >= 2
    /\ <<fmt_out[Len(fmt_out) - 1], Last(fmt_out)>> = <<json_str[i - 1], json_str[i]>>

(***************************************************************************)
(* Properties of the renderers (checked under Spec, on what Generate Code  *)
(* printed for the stored request).                                        *)
(***************************************************************************)
Renderers == {"javascript", "python", "rust", "java"}

\* the renderer printed in this round of the menu
HasPrinted(by) == pc = "pause" /\ \E k \in 1..Len(output) : output[k].by = by

\* the printf call with which a renderer prints one header
HeaderFormat(by) ==
    CASE by = "javascript" -> "    '%s': '%s'"
      [] by = "python" -> "    '%s': '%s'"
      [] by = "rust" -> "        .header(\"%s\", \"%s\")\n"
      [] by = "java" -> "            .header(\"%s\", \"%s\")\n"
      [] by = "curl" -> " \\\n  -H '%s'"

\* the arguments of the header lines a renderer printed, in order
HeaderArgs(by) ==
    LET lines == SelectSeq(output, LAMBDA r : r.by = by /\ r.fmt = HeaderFormat(by))
    IN  [k \in 1..Len(lines) |-> lines[k].args]

StoredHeaders(req) == [k \in 1..req.header_count |-> req.headers[k]]

HasColon(h) == \E k \in 1..Len(h) : h[k] = ":"

\* the text before the first colon of h
KeyText(h) ==
    LET k == CHOOSE n \in 1..Len(h) : h[n] = ":" /\ \A j \in 1..(n - 1) : h[j] # ":"
    IN  SubSeq(h, 1, k - 1)

\* the text after the first colon of h without its leading spaces: the
\* suffix v that does not start with a space and has only spaces before it
ValueText(h) ==
    LET rest == SubSeq(h, Len(KeyText(h)) + 2, Len(h))
        n == CHOOSE m \in 0..Len(rest) :
                 /\ \A j \in 1..m : rest[j] = " "
                 /\ (m < Len(rest) => rest[m + 1] # " ")
    IN  SubSeq(rest, n + 1, Len(rest))

PairOf(h) == <<KeyText(h), ValueText(h)>>

WithColon(hs) == SelectSeq(hs, HasColon)

\* C4: when every stored header contains a colon, each of the JavaScript,
\* Python, Rust and Java renderers prints exactly one key/value pair per
\* header, in the stored order: the text before the first colon, and the
\* text after it without its leading spaces.
C4_HeaderPairs ==
    \A by \in Renderers :
        (/\ HasPrinted(by)
         /\ \A k \in 1..last_request.header_count : HasColon(last_request.headers[k]))
        => HeaderArgs(by) =
             [k \in 1..last_request.header_count |-> PairOf(last_request.headers[k])]

\* C4 witness: all five renderers printed a request with two headers, one
\* with several spaces after its first colon and a second colon.
C4_Witness ==
    /\ \A by \in Renderers : HasPrinted(by)
    /\ last_request.header_count = 2
    /\ \A k \in 1..2 : HasColon(last_request.headers[k])
    /\ \E k \in 1..2 :
         /\ Len(ValueText(last_request.headers[k])) + Len(KeyText(last_request.headers[k])) + 2
              < Len(last_request.headers[k])
         /\ HasColon(ValueText(last_request.headers[k]))
    /\ HeaderArgs("python") = <<PairOf(last_request.headers[1]), PairOf(last_request.headers[2])>>

\* C5: when a stored header has no colon, the JavaScript, Python, Rust and
\* Java renderers print no pair for it and still print the pairs of the other
\* headers, in order; the curl renderer prints one -H line per stored
\* header, in order, with the header verbatim, the colon-less one included.
C5_ColonlessHeader ==
    (\E k \in 1..last_request.header_count : ~HasColon(last_request.headers[k]))
    => /\ \A by \in Renderers :
            HasPrinted(by) =>
              LET kept == WithColon(StoredHeaders(last_request))
              IN  HeaderArgs(by) = [k \in 1..Len(kept) |-> PairOf(kept[k])]
       /\ HasPrinted("curl") =>
            HeaderArgs("curl") =
              [k \in 1..last_request.header_count |-> <<last_request.headers[k]>>]

\* C5 witness: all renderers printed a request with one colon-less header
\* and one header with a colon.
C5_Witness ==
    /\ \A by \in Renderers \cup {"curl"} : HasPrinted(by)
    /\ last_request.header_count = 2
    /\ ~HasColon(last_request.headers[1])
    /\ HasColon(last_request.headers[2])
    /\ Len(HeaderArgs("java")) = 1
    /\ Len(HeaderArgs("curl")) = 2

\* the arguments of the printf calls of a renderer with a given format
ArgsOf(by, fmt) ==
    LET lines == SelectSeq(output, LAMBDA r : r.by = by /\ r.fmt = fmt)
    IN  [k \in 1..Len(lines) |-> lines[k].args]

CustomMethod(req) == req.method \notin {GET, POST, PUT, DELETE}

JavaWithBody == "            .%s(HttpRequest.BodyPublishers.ofString(jsonBody));\n"

JavaNoBody == "            .%s(HttpRequest.BodyPublishers.noBody());\n"

\* what C6 says of the Python, Rust and curl renderers
GenericCallForms ==
    /\ HasPrinted("python") =>
         ArgsOf("python", "response = requests.%s(url") = <<<<LitRequest>>>>
    /\ HasPrinted("rust") =>
         ArgsOf("rust", "    let response = client.%s(\"%s\")\n")
           = <<<<LitRequest, last_request.url>>>>
    /\ HasPrinted("curl") =>
         ArgsOf("curl", "curl -X %s '%s'") = <<<<last_request.method, last_request.url>>>>

\* C6 as stated: for a method outside GET/POST/PUT/DELETE, with or without a
\* body, Python and Rust use the generic 'request' call, curl prints the
\* method token after -X, and Java names the builder call that sets the body
\* publisher by the method token.
C6_AsStated ==
    CustomMethod(last_request) =>
        /\ GenericCallForms
        /\ HasPrinted("java") =>
             ArgsOf("java", JavaWithBody) \o ArgsOf("java", JavaNoBody)
               = <<<<last_request.method>>>>

\* C6 amended: as stated for Python, Rust and curl; Java names the call by
\* the method token only when the body is empty, and names it 'method' when
\* there is a body.
C6_MethodForms ==
    CustomMethod(last_request) =>
        /\ GenericCallForms
        /\ HasPrinted("java") =>
             /\ ArgsOf("java", JavaNoBody)
                  = IF HasBody(last_request) THEN <<>> ELSE <<<<last_request.method>>>>
             /\ ArgsOf("java", JavaWithBody)
                  = IF HasBody(last_request) THEN <<<<LitMethod>>>> ELSE <<>>

\* C6 witness: all renderers printed a PATCH request with a body.
C6_Witness ==
    /\ \A by \in Renderers \cup {"curl"} : HasPrinted(by)
    /\ last_request.method = <<"P", "A", "T", "C", "H">>
    /\ HasBody(last_request)
    /\ ArgsOf("java", JavaWithBody) = <<<<LitMethod>>>>

\* C7: the JavaScript renderer looks at the first character of the body
\* only: a non-empty body starting with '{' or '[' is printed as
\* JSON.stringify(<body>) with the body verbatim, any other non-empty body as
\* a single-quoted string, and an empty body prints no body line.
C7_JavascriptBody ==
    HasPrinted("javascript") =>
        LET stringify == ArgsOf("javascript", "  body: JSON.stringify(%s)\n")
            quoted == ArgsOf("javascript", "  body: '%s'\n")
            body == last_request.body
        IN  IF body = <<>> THEN stringify = <<>> /\ quoted = <<>>
            ELSE IF body[1] \in {"{", "["}
                 THEN stringify = <<<<body>>>> /\ quoted = <<>>
                 ELSE stringify = <<>> /\ quoted = <<<<body>>>>

\* C7 witness: JavaScript printed a body with a bracket after a leading
\* space as a quoted string.
C7_Witness ==
    /\ HasPrinted("javascript")
    /\ Len(last_request.body) >= 2
    /\ last_request.body[1] = " "
    /\ last_request.body[2] = "["
    /\ ArgsOf("javascript", "  body: '%s'\n") = <<<<last_request.body>>>>

(***************************************************************************)
(* Properties of the session (checked under Spec).                         *)
(***************************************************************************)
\* the first character of body that is not a space, NUL when there is none
FirstNonSpace(body) ==
    IF \E k \in 1..Len(body) : body[k] # " "
    THEN body[CHOOSE k \in 1..Len(body) :
                  body[k] # " " /\ \A j \in 1..(k - 1) : body[j] = " "]
    ELSE NUL

\* the key of header h equals Content-Type, letter case aside
KeyIsContentType(h) ==
    /\ HasColon(h)
    /\ Len(KeyText(h)) = 12
    /\ \A k \in 1..12 : ToLower(KeyText(h)[k]) = ToLower(ContentTypePrefix[k])

\* C8 as stated: when New Request reads a body whose first non-space
\* character is '{' or '[' and no stored header has a key equal to
\* Content-Type (case-insensitively), 'Content-Type: application/json' is
\* appended to the header list; otherwise the header list is left as entered.
C8_AsStated ==
    [][ (pc = "cfg_body" /\ pc' = "cfg_redir") =>
          LET n == last_request.header_count
          IN  IF /\ FirstNonSpace(last_request'.body) \in {"{", "["}
                 /\ ~\E k \in 1..n : KeyIsContentType(last_request.headers[k])
              THEN /\ last_request'.header_count = n + 1
                   /\ StoredHeaders(last_request')
                        = Append(StoredHeaders(last_request), ContentTypeJson)
              ELSE StoredHeaders(last_request') = StoredHeaders(last_request)
      ]_vars

\* the "Invalid option" report of main
InvalidOption == P("main", "%s[!] Invalid option%s\n", <<COLOR_RED, COLOR_RESET>>)

\* C9 as stated: at the main menu an input that does not parse as a number,
\* or a number outside 1..5, is reported as invalid and the loop goes on to
\* the next menu prompt without running New Request, View Last, Generate
\* Code or Help; the process ends only through the selection of Exit.
C9_AsStated ==
    [][ pc = "menu" =>
          /\ (scan_ret' = 0 \/ (scan_ret' = 1 /\ choice' \notin 1..5))
               => (pc' = "pause" /\ output' = <<InvalidOption>>)
          /\ pc' = "exited" => (scan_ret' = 1 /\ choice' = 5)
      ]_vars

\* C10: the method of the stored Request is never empty.
C10_MethodNeverEmpty == Len(last_request.method) > 0

\* C10 witness: after a request with a body, an empty method line was
\* entered for the next request and the stored method is GET.
C10_Witness ==
    /\ pc = "cfg_addhdr"
    /\ ~eof
    /\ last_request.method = GET
    /\ HasBody(last_request)

\* the positions of configure_request
CfgPositions ==
    {"cfg_url", "cfg_method", "cfg_addhdr", "cfg_hdr", "cfg_addbody", "cfg_body",
     "cfg_redir", "cfg_timeout", "cfg_verbose"}

\* the read of this step got nothing: no line was pending and the input ended
ReadFailed == pending = <<>> /\ eof'

\* C11 as stated: outside New Request (View Last, Generate Code, Help, an
\* invalid selection, the transport call, the pause) no field of the single
\* Request changes; within New Request no header and no body is left over
\* from the previous request: a header is stored only when its line was read
\* from the input in that step, and the body with which the configuration
\* goes on is empty unless read_multiline_body has just read it.
C11_AsStated ==
    [][ /\ pc \notin CfgPositions => last_request' = last_request
        /\ ( /\ pc = "cfg_hdr"
             /\ last_request'.header_count = last_request.header_count + 1 )
             => ~ReadFailed
        /\ (pc \in CfgPositions /\ pc' = "cfg_redir" /\ pc # "cfg_body")
             => last_request'.body = <<>>
      ]_vars

(***************************************************************************)
(* Further properties of format_json (checked under SpecFormat).           *)
(***************************************************************************)
\* C12 as stated: a '"' toggles in_string unless the character immediately
\* before it in the input is a backslash, so the quote of backslash, space,
\* quote toggles; no other character changes in_string.
C12_AsStated ==
    [][ IsIter =>
          ((in_string' # in_string) <=> TogglingQuote(json_str, i + 1))
      ]_vars

\* the closing bracket that matches an opening bracket
MatchingClose(c) == IF c = "{" THEN "}" ELSE "]"

\* the step reads an opening bracket outside a string
ReadsOpen == IsIter /\ ~in_string /\ Cur \in {"{", "["}

\* C13 as stated: for '{' or '[' outside a string the bracket is printed, the
\* indent level goes up by one, and a newline with two spaces per level
\* follows unless the very next input character is the matching closing
\* bracket; a bracket that ends the input, or is followed by the other
\* closing bracket, gets the newline.
C13_AsStated ==
    [][ ReadsOpen =>
          /\ indent' = indent + 1
          /\ Printed = IF i + 1 < Len(json_str) /\ json_str[i + 2] = MatchingClose(Cur)
                       THEN <<Cur>>
                       ELSE <<Cur, "\n">> \o Spaces(2 * indent')
      ]_vars

\* C13 amended: for '{' or '[' outside a string the bracket is printed and
\* the indent level goes up by one; a newline with 2 * |indent| spaces
\* follows only when another character follows in the input and that
\* character is neither '}' nor ']'.  A bracket that ends the input, or is
\* followed by either closing bracket, is printed alone.
C13_OpenBracket ==
    [][ ReadsOpen =>
          /\ indent' = indent + 1
          /\ Printed = IF i + 1 < Len(json_str) /\ json_str[i + 2] \notin {"}", "]"}
                       THEN <<Cur, "\n">> \o Spaces(2 * Abs(indent'))
                       ELSE <<Cur>>
      ]_vars

\* C13 witness: '{' followed by the non-matching ']' was printed without a
\* newline, at level 1.
C13_Witness ==
    /\ fmt_pc = "loop"
    /\ json_str = <<"{", "]">>
    /\ i = 1
    /\ indent = 1
    /\ fmt_out = <<"{">>

\* the opening bracket that matches a closing bracket
MatchingOpen(c) == IF c = "}" THEN "{" ELSE "["

\* the step reads a closing bracket outside a string
ReadsClose == IsIter /\ ~in_string /\ Cur \in {"}", "]"}

\* C14 as stated: for '}' or ']' outside a string the indent level goes down
\* by one first, then a newline and the pad of the new level are printed
\* before the bracket; the newline is skipped exactly when the previous
\* non-whitespace character is the opening bracket that matches this close,
\* and then the opening bracket was printed with nothing after it (the open
\* side printed no newline).
C14_AsStated ==
    [][ ReadsClose =>
          /\ indent' = indent - 1
          /\ Printed = IF prev_char = MatchingOpen(Cur)
                       THEN <<Cur>>
                       ELSE (<<"\n">> \o Spaces(2 * Abs(indent'))) \o <<Cur>>
          /\ Printed = <<Cur>> => Last(fmt_out) = MatchingOpen(Cur)
      ]_vars

\* the spaces, tabs, carriage returns and newlines
Whitespace == {" ", "\t", "\r", "\n"}

\* s with its whitespace deleted
StripWhitespace(s) == SelectSeq(s, LAMBDA c : c \notin Whitespace)

\* C15: format_json changes whitespace only.  On every input, balanced or
\* not, with closed or unclosed strings: each loop iteration consumes one
\* input character; after i characters the output with its whitespace
\* deleted equals the first i input characters with theirs deleted, so no
\* other character is dropped, added, duplicated or reordered; while the
\* scan is not over a step is always possible, and the scan ends with the
\* final newline after the last character.
C15_WhitespaceOnly ==
    /\ fmt_pc \in {"loop", "done"} =>
         StripWhitespace(fmt_out) = StripWhitespace(SubSeq(json_str, 1, i))
    /\ fmt_pc = "loop" => ENABLED NextFormat
    /\ fmt_pc = "done" => (i = Len(json_str) /\ Last(fmt_out) = "\n")

\* C15 witness: the input with tabs, a carriage return and a newline inside
\* and outside a string was formatted to the end, and the output differs
\* from the input in its whitespace.
C15_Witness ==
    /\ fmt_pc = "done"
    /\ json_str = ExampleSpaced
    /\ fmt_out # json_str \o <<"\n">>
    /\ StripWhitespace(fmt_out) = StripWhitespace(json_str)
    /\ \E k \in 1..Len(fmt_out) : fmt_out[k] = "\t"

====
